---------------------------- MODULE Spec2Model ----------------------------
(***************************************************************************)
(* NetworkTraceHandler (service-t/native/libs/libnetworkstats): the        *)
(* Perfetto data source that turns batches of PacketTrace records into     *)
(* trace packets, either one packet per record or one bundle per context.  *)
(*                                                                         *)
(* Numbers: TLC's integers are 32 bits wide.  Timestamps (uint64_t) and    *)
(* lengths (uint32_t) range over 0..UINT64_MAX and 0..UINT32_MAX below,    *)
(* with the wraparound of the unsigned type kept at that top value.  The   *)
(* 64-bit hash of BundleHash is computed exactly, on four 16-bit limbs.    *)
(***************************************************************************)
EXTENDS Integers, Sequences, FiniteSets, TLC

\* ------------------------------------------------------------------ bounds

\* Longest batch the poller hands to the callback.
MaxBatch == 2

\* Most successful sPoller.Start calls followed in one behaviour.
MaxCalls == 2

\* ------------------------------------------------------- program constants

\* OnSetup: "poll_ms is missing or below the 100ms minimum".
POLL_MIN_MS == 100

\* std::numeric_limits<uint64_t>::max(), the initial BundleDetails::minTs.
UINT64_MAX == 2147483647

\* Largest uint32_t, the type of BundleDetails::bytes.
UINT32_MAX == 2147483647

\* ------------------------------------------------------ unsigned arithmetic

MinU64(a, b) == IF a < b THEN a ELSE b

MaxU64(a, b) == IF a < b THEN b ELSE a

\* a - b in uint64_t: wraps below zero.
SubU64(a, b) == IF a >= b THEN a - b ELSE (UINT64_MAX - b) + a + 1

\* A bug: the sum held at UINT32_MAX instead of wrapping.
AddU32Saturating(a, b) == IF a <= UINT32_MAX - b THEN a + b ELSE UINT32_MAX

\* a + b in uint32_t: wraps above UINT32_MAX.
AddU32(a, b) == IF a <= UINT32_MAX - b THEN a + b ELSE a - (UINT32_MAX - b) - 1

\* ntohs on the little-endian targets Android builds for: swap the two bytes.
ntohs(x) == (x % 256) * 256 + (x \div 256)

\* ------------------------------------------------ std::size_t, 4 x 16 bits

Limb == 65536

\* A value below 2^31 as a 64-bit word, least significant limb first.
Word64(n) == <<n % Limb, n \div Limb, 0, 0>>

\* 0x9e3779b9
GoldenRatio == <<31161, 40503, 0, 0>>

Add64(a, b) ==
    LET s1 == a[1] + b[1]
        s2 == a[2] + b[2] + (s1 \div Limb)
        s3 == a[3] + b[3] + (s2 \div Limb)
        s4 == a[4] + b[4] + (s3 \div Limb)
    IN  <<s1 % Limb, s2 % Limb, s3 % Limb, s4 % Limb>>

\* seed << 6
Shl6(a) ==
    LET s1 == a[1] * 64
        s2 == a[2] * 64 + (s1 \div Limb)
        s3 == a[3] * 64 + (s2 \div Limb)
        s4 == a[4] * 64 + (s3 \div Limb)
    IN  <<s1 % Limb, s2 % Limb, s3 % Limb, s4 % Limb>>

\* seed >> 2
Shr2(a) ==
    << (a[1] \div 4) + (a[2] % 4) * 16384,
       (a[2] \div 4) + (a[3] % 4) * 16384,
       (a[3] \div 4) + (a[4] % 4) * 16384,
       (a[4] \div 4) >>

RECURSIVE XorBits(_, _, _)
XorBits(x, y, n) ==
    IF n = 0 THEN 0
    ELSE ((x + y) % 2) + 2 * XorBits(x \div 2, y \div 2, n - 1)

Xor64(a, b) == [i \in 1..4 |-> XorBits(a[i], b[i], 16)]

\* std::hash<T> of an integral field is the value itself.
StdHash(v) == Word64(v)

\* std::hash<bool>: 0 or 1.
StdHashBool(b) == IF b THEN Word64(1) ELSE Word64(0)

\* seed ^= std::hash<T>()(val) + 0x9e3779b9 + (seed << 6) + (seed >> 2)
HashCombine(seed, val) ==
    Xor64(seed, Add64(Add64(Add64(val, GoldenRatio), Shl6(seed)), Shr2(seed)))


\* ------------------------------------------------------ bundle key and map

\* A bug: the macro without its last field.
AGG_FIELDS_NoTcpFlags(x) ==
    <<x.ifindex, x.uid, x.tag, x.sport, x.dport, x.egress, x.ipProto>>

\* AGG_FIELDS(x): every PacketTrace field but timestampNs and length.
AGG_FIELDS(x) ==
    <<x.ifindex, x.uid, x.tag, x.sport, x.dport, x.egress, x.ipProto, x.tcpFlags>>

\* std::hash<T> of the i-th field: egress, the sixth, is the bool.
HashOfField(fields, i) ==
    IF i = 6 THEN StdHashBool(fields[i]) ELSE StdHash(fields[i])

\* HashCombine(seed, val, rest...): val, then each of rest, left to right;
\* the seed after the first n fields.
RECURSIVE HashCombineAll(_, _, _)
HashCombineAll(seed, fields, n) ==
    IF n = 0 THEN seed
    ELSE HashCombine(HashCombineAll(seed, fields, n - 1), HashOfField(fields, n))

\* BundleHash::operator(): seed = 0; HashCombine(seed, AGG_FIELDS(a)).
BundleHash(a) == HashCombineAll(Word64(0), AGG_FIELDS(a), Len(AGG_FIELDS(a)))

\* BundleEq::operator(): std::tie(AGG_FIELDS(a)) == std::tie(AGG_FIELDS(b)).
BundleEq(a, b) == AGG_FIELDS(a) = AGG_FIELDS(b)

\* ------------------------------------------------------------- the inputs

\* A TCP packet sent from port 0x3412 to port 80 (ports in network order).
BasePacket ==
    [timestampNs |-> 1, length |-> 72, ifindex |-> 1, uid |-> 1000, tag |-> 123,
     sport |-> 4660, dport |-> 20480, egress |-> TRUE, ipProto |-> 6,
     tcpFlags |-> 2]

\* Three packets of one context, as in the bundling comment's example.
SameContext ==
    {[BasePacket EXCEPT !.timestampNs = tl[1], !.length = tl[2]] :
        tl \in {<<1, 72>>, <<2, 100>>, <<5, 456>>}}

\* Eight more, each differing from BasePacket in exactly one context field.
OtherContexts ==
    {[BasePacket EXCEPT !.ifindex = 3], [BasePacket EXCEPT !.uid = 1001],
     [BasePacket EXCEPT !.tag = 124], [BasePacket EXCEPT !.sport = 13330],
     [BasePacket EXCEPT !.dport = 47873], [BasePacket EXCEPT !.egress = FALSE],
     [BasePacket EXCEPT !.ipProto = 17], [BasePacket EXCEPT !.tcpFlags = 16]}

\* The PacketTrace records the poller may read from the ring buffer.
Packets == SameContext \cup OtherContexts

\* Records at the ends of the field widths: timestamps 0 and UINT64_MAX,
\* lengths up to UINT32_MAX, four of one context and one of another.
WidePackets ==
    {[BasePacket EXCEPT !.timestampNs = tl[1], !.length = tl[2]] :
        tl \in {<<0, 72>>, <<UINT64_MAX, UINT32_MAX>>, <<5, UINT32_MAX>>, <<7, 1>>}}
    \cup {[BasePacket EXCEPT !.timestampNs = 3, !.length = UINT32_MAX, !.uid = 1001]}

\* The hash of every record, computed once.
bundleHashOf == [p \in Packets \cup WidePackets |-> BundleHash(p)]

\* The decoded NetworkPacketTraceConfig of a session; an unset field reads 0
\* or false.
Configs ==
    {[poll_ms |-> 0, intern_limit |-> 0, aggregation_threshold |-> 0,
      drop_local_port |-> FALSE, drop_remote_port |-> FALSE,
      drop_tcp_flags |-> FALSE],
     [poll_ms |-> 250, intern_limit |-> 0, aggregation_threshold |-> 0,
      drop_local_port |-> TRUE, drop_remote_port |-> TRUE,
      drop_tcp_flags |-> TRUE],
     [poll_ms |-> 99, intern_limit |-> 0, aggregation_threshold |-> 10,
      drop_local_port |-> FALSE, drop_remote_port |-> FALSE,
      drop_tcp_flags |-> FALSE],
     [poll_ms |-> 100, intern_limit |-> 5, aggregation_threshold |-> 0,
      drop_local_port |-> TRUE, drop_remote_port |-> FALSE,
      drop_tcp_flags |-> TRUE]}

\* No OnSetup yet.
NoConfig == [poll_ms |-> 0]

\* if_indextoname: the interfaces of the device; any other index fails.
IfNames == [i \in {1, 2} |-> IF i = 1 THEN "wlan0" ELSE "rmnet0"]

\* ------------------------------------------------------------------- state

VARIABLES
    config,                \* args.config of the latest OnSetup
    mPollMs, mInternLimit, mAggregationThreshold,
    mDropLocalPort, mDropRemotePort, mDropTcpFlags,
    mStarted,
    pollerMs,              \* argument of the latest sPoller.Start call
    pollerStarts,          \* sPoller.Start calls that returned true
    pollerStops,           \* sPoller.Stop calls
    packets,               \* the batch the poller is reading / has delivered
    trace,                 \* trace packets written to ctx by the callback
    earlier,               \* the callback before: its batch, config and trace
                           \* (empty in Init; kept by ReturnAfterBatch)
    lastCall               \* the callback that ran last

handler == <<mPollMs, mInternLimit, mAggregationThreshold,
             mDropLocalPort, mDropRemotePort, mDropTcpFlags>>

poller == <<pollerMs, pollerStarts, pollerStops>>

vars == <<config, handler, mStarted, poller, packets, trace, earlier, lastCall>>

Init ==
    /\ config = NoConfig
    /\ mPollMs = 0 /\ mInternLimit = 0 /\ mAggregationThreshold = 0
    /\ mDropLocalPort = FALSE /\ mDropRemotePort = FALSE
    /\ mDropTcpFlags = FALSE
    /\ mStarted = FALSE
    /\ pollerMs = 0 /\ pollerStarts = 0 /\ pollerStops = 0
    /\ packets = <<>> /\ trace = <<>> /\ earlier = <<>>
    /\ lastCall = "none"

\* The data source lock: Perfetto runs OnSetup, OnStart and OnStop with it
\* held, and GetDataSourceLocked holds it while the callback writes.
Unlocked == lastCall \notin {"Poll", "Write"}

\* ------------------------------------------------------------------- Fill

\* A bug: the result of if_indextoname not tested; the zeroed buffer is
\* written when the lookup fails.
FillUnchecked(src) ==
    [direction |-> IF src.egress THEN "DIR_EGRESS" ELSE "DIR_INGRESS",
     uid |-> src.uid,
     tag |-> src.tag,
     local_port |-> IF src.egress THEN ntohs(src.sport) ELSE ntohs(src.dport),
     remote_port |-> IF src.egress THEN ntohs(src.dport) ELSE ntohs(src.sport),
     ip_proto |-> src.ipProto,
     tcp_flags |-> src.tcpFlags,
     interface |-> IF src.ifindex \in DOMAIN IfNames THEN IfNames[src.ifindex]
                   ELSE ""]

\* A bug: the ports not swapped for ingress.
FillNoSwap(src) ==
    [direction |-> IF src.egress THEN "DIR_EGRESS" ELSE "DIR_INGRESS",
     uid |-> src.uid,
     tag |-> src.tag,
     local_port |-> ntohs(src.sport),
     remote_port |-> ntohs(src.dport),
     ip_proto |-> src.ipProto,
     tcp_flags |-> src.tcpFlags,
     interface |-> IF src.ifindex \in DOMAIN IfNames THEN IfNames[src.ifindex]
                   ELSE "error"]

\* NetworkTraceHandler::Fill: the fields set on the NetworkPacketEvent.
Fill(src) ==
    [direction |-> IF src.egress THEN "DIR_EGRESS" ELSE "DIR_INGRESS",
     uid |-> src.uid,
     tag |-> src.tag,
     local_port |-> IF src.egress THEN ntohs(src.sport) ELSE ntohs(src.dport),
     remote_port |-> IF src.egress THEN ntohs(src.dport) ELSE ntohs(src.sport),
     ip_proto |-> src.ipProto,
     tcp_flags |-> src.tcpFlags,
     interface |-> IF src.ifindex \in DOMAIN IfNames THEN IfNames[src.ifindex]
                   ELSE "error"]


\* ------------------------------------------------------------------ Write

\* A bug: the initial values of minTs and maxTs exchanged.
BundleDetailsSwapped ==
    [time_and_len |-> <<>>, minTs |-> 0, maxTs |-> UINT64_MAX, bytes |-> 0]

\* A default-constructed BundleDetails.
BundleDetails ==
    [time_and_len |-> <<>>, minTs |-> UINT64_MAX, maxTs |-> 0, bytes |-> 0]

\* A bug: a sample already in the bundle is not added again.
AddPacketOnce(bundle, pkt) ==
    IF \E i \in DOMAIN bundle.time_and_len :
            bundle.time_and_len[i] = <<pkt.timestampNs, pkt.length>>
    THEN bundle
    ELSE [time_and_len |-> Append(bundle.time_and_len, <<pkt.timestampNs, pkt.length>>),
          minTs |-> IF bundle.minTs < pkt.timestampNs THEN bundle.minTs ELSE pkt.timestampNs,
          maxTs |-> IF bundle.maxTs < pkt.timestampNs THEN pkt.timestampNs ELSE bundle.maxTs,
          bytes |-> AddU32(bundle.bytes, pkt.length)]

\* A bug: minTs taken from the bundle's first packet, as if timestamps only
\* grew.
AddPacketFirstTs(bundle, pkt) ==
    [time_and_len |-> Append(bundle.time_and_len, <<pkt.timestampNs, pkt.length>>),
     minTs |-> IF bundle.time_and_len = <<>> THEN pkt.timestampNs ELSE bundle.minTs,
     maxTs |-> IF bundle.maxTs < pkt.timestampNs THEN pkt.timestampNs ELSE bundle.maxTs,
     bytes |-> AddU32(bundle.bytes, pkt.length)]

\* A bug: the samples kept sorted by timestamp.
AddPacketSorted(bundle, pkt) ==
    [time_and_len |->
        SelectSeq(bundle.time_and_len, LAMBDA e : e[1] <= pkt.timestampNs)
            \o << <<pkt.timestampNs, pkt.length>> >>
            \o SelectSeq(bundle.time_and_len, LAMBDA e : e[1] > pkt.timestampNs),
     minTs |-> IF bundle.minTs < pkt.timestampNs THEN bundle.minTs ELSE pkt.timestampNs,
     maxTs |-> IF bundle.maxTs < pkt.timestampNs THEN pkt.timestampNs ELSE bundle.maxTs,
     bytes |-> AddU32(bundle.bytes, pkt.length)]

\* The body of Write's first loop, on the bundle of pkt.
AddPacket(bundle, pkt) ==
    [time_and_len |-> Append(bundle.time_and_len, <<pkt.timestampNs, pkt.length>>),
     minTs |-> MinU64(bundle.minTs, pkt.timestampNs),
     maxTs |-> MaxU64(bundle.maxTs, pkt.timestampNs),
     bytes |-> AddU32(bundle.bytes, pkt.length)]

\* unordered_map lookup: the entry whose key hashes like pkt and is BundleEq
\* to it; 0 when there is none.  bundles lists the entries as inserted.
Find(bundles, pkt) ==
    LET hits == {i \in 1..Len(bundles) :
                    /\ bundleHashOf[bundles[i].key] = bundleHashOf[pkt]
                    /\ BundleEq(bundles[i].key, pkt)}
    IN  IF hits = {} THEN 0 ELSE CHOOSE i \in hits : \A j \in hits : i <= j

\* A bug: bundles declared static, the entries of the callback before still
\* in the map when the next batch arrives.
RECURSIVE BundlesStatic(_, _)
BundlesStatic(pkts, n) ==
    IF n = 0
    THEN IF earlier = <<>> \/ pkts = earlier[1].packets
         THEN <<>>
         ELSE BundlesStatic(earlier[1].packets, Len(earlier[1].packets))
    ELSE LET prev == BundlesStatic(pkts, n - 1)
             pkt == pkts[n]
             i == Find(prev, pkt)
         IN  IF i = 0
             THEN Append(prev, [key |-> pkt, details |-> AddPacket(BundleDetails, pkt)])
             ELSE [prev EXCEPT ![i].details = AddPacket(@, pkt)]

\* A bug: mInternLimit caps the map; the record of a context beyond the cap
\* is left out.
RECURSIVE BundlesCapped(_, _)
BundlesCapped(pkts, n) ==
    IF n = 0 THEN <<>>
    ELSE LET prev == BundlesCapped(pkts, n - 1)
             pkt == pkts[n]
             i == Find(prev, pkt)
         IN  IF i = 0
             THEN IF mInternLimit # 0 /\ Len(prev) >= mInternLimit
                  THEN prev
                  ELSE Append(prev, [key |-> pkt,
                                     details |-> AddPacket(BundleDetails, pkt)])
             ELSE [prev EXCEPT ![i].details = AddPacket(@, pkt)]

\* Write's first loop over pkts[1..n]: bundles[pkt] inserts a default
\* BundleDetails under the key pkt when no entry matches.
RECURSIVE Bundles(_, _)
Bundles(pkts, n) ==
    IF n = 0 THEN <<>>
    ELSE LET prev == Bundles(pkts, n - 1)
             pkt == pkts[n]
             i == Find(prev, pkt)
         IN  IF i = 0
             THEN Append(prev, [key |-> pkt, details |-> AddPacket(BundleDetails, pkt)])
             ELSE [prev EXCEPT ![i].details = AddPacket(@, pkt)]

\* The trace packet of the fallback loop: timestamp, length, then Fill.
PacketMessage(pkt) ==
    [timestamp |-> pkt.timestampNs,
     network_packet |-> [length |-> pkt.length] @@ Fill(pkt)]

\* The trace packet of one bundle: timestamp minTs, ctx by Fill(key), and
\* the two packed arrays in time_and_len order.
BundleMessage(key, details) ==
    [timestamp |-> details.minTs,
     network_packet_bundle |->
        [ctx |-> Fill(key),
         packet_timestamps |->
            [i \in 1..Len(details.time_and_len) |->
                SubU64(details.time_and_len[i][1], details.minTs)],
         packet_lengths |->
            [i \in 1..Len(details.time_and_len) |-> details.time_and_len[i][2]]]]

\* A bug: the fallback removed, as its TODO asks, bundles or not.
FallbackRemoved == FALSE

\* A bug: || for &&.
FallbackEither == mInternLimit = 0 \/ mAggregationThreshold = 0

\* if (!mInternLimit && !mAggregationThreshold): one packet per record.
Fallback == mInternLimit = 0 /\ mAggregationThreshold = 0

\* The orders in which an unordered_map of n entries may be iterated.
IterationOrders(n) == IF n = 0 THEN {<<>>} ELSE Permutations(1..n)

\* ---------------------------------------------------------------- actions

\* The poller reads one more record into the batch of its next callback.
PollerRead(pkt) ==
    /\ lastCall # "Write"
    /\ Len(packets) < MaxBatch
    /\ packets' = Append(packets, pkt)
    /\ lastCall' = "Poll"
    /\ UNCHANGED <<earlier, config, handler, mStarted, poller, trace>>

\* A bug: poll_ms stored as configured.
OnSetupNoClamp(cfg) ==
    /\ lastCall \notin {"Poll", "Write"}
    /\ config' = cfg
    /\ mPollMs' = cfg.poll_ms
    /\ mInternLimit' = cfg.intern_limit
    /\ mAggregationThreshold' = cfg.aggregation_threshold
    /\ mDropLocalPort' = cfg.drop_local_port
    /\ mDropRemotePort' = cfg.drop_remote_port
    /\ mDropTcpFlags' = cfg.drop_tcp_flags
    /\ lastCall' = "OnSetup"
    /\ UNCHANGED <<earlier, mStarted, poller, packets, trace>>

OnSetup(cfg) ==
    /\ Unlocked
    /\ config' = cfg
    /\ mPollMs' = IF cfg.poll_ms < POLL_MIN_MS THEN POLL_MIN_MS ELSE cfg.poll_ms
    /\ mInternLimit' = cfg.intern_limit
    /\ mAggregationThreshold' = cfg.aggregation_threshold
    /\ mDropLocalPort' = cfg.drop_local_port
    /\ mDropRemotePort' = cfg.drop_remote_port
    /\ mDropTcpFlags' = cfg.drop_tcp_flags
    /\ lastCall' = "OnSetup"
    /\ UNCHANGED <<earlier, mStarted, poller, packets, trace>>

\* A bug: the result of Start dropped, the handler started regardless.
OnStartIgnoresResult(ok) ==
    /\ lastCall \notin {"Poll", "Write"}
    /\ config # NoConfig
    /\ pollerStarts < MaxCalls
    /\ pollerMs' = mPollMs
    /\ pollerStarts' = IF ok THEN pollerStarts + 1 ELSE pollerStarts
    /\ mStarted' = TRUE
    /\ lastCall' = "OnStart"
    /\ UNCHANGED <<earlier, config, handler, pollerStops, packets, trace>>

\* mStarted = sPoller.Start(mPollMs); ok is what Start returns.
OnStart(ok) ==
    /\ Unlocked
    /\ config # NoConfig
    /\ pollerStarts < MaxCalls
    /\ pollerMs' = mPollMs
    /\ pollerStarts' = IF ok THEN pollerStarts + 1 ELSE pollerStarts
    /\ mStarted' = ok
    /\ lastCall' = "OnStart"
    /\ UNCHANGED <<earlier, config, handler, pollerStops, packets, trace>>

\* A bug: the flag cleared, the poller left running.
OnStopNoPollerStop ==
    /\ lastCall \notin {"Poll", "Write"}
    /\ mStarted' = FALSE
    /\ lastCall' = "OnStop"
    /\ UNCHANGED <<earlier, config, handler, poller, packets, trace>>

\* A bug: sPoller.Stop called whether started or not.
OnStopAlways ==
    /\ lastCall \notin {"Poll", "Write"}
    /\ pollerStops' = pollerStops + 1
    /\ mStarted' = FALSE
    /\ lastCall' = "OnStop"
    /\ UNCHANGED <<earlier, config, handler, pollerMs, pollerStarts, packets, trace>>

\* if (mStarted) sPoller.Stop(); mStarted = false;
OnStop ==
    /\ Unlocked
    /\ pollerStops' = IF mStarted THEN pollerStops + 1 ELSE pollerStops
    /\ mStarted' = FALSE
    /\ lastCall' = "OnStop"
    /\ UNCHANGED <<earlier, config, handler, pollerMs, pollerStarts, packets, trace>>

\* The sPoller callback on a session: Trace hands the batch to Write.
Write ==
    /\ lastCall # "Write"
    /\ config # NoConfig
    /\ IF Fallback
       THEN trace' = [i \in 1..Len(packets) |-> PacketMessage(packets[i])]
       ELSE LET bundles == Bundles(packets, Len(packets))
            IN  \E order \in IterationOrders(Len(bundles)) :
                    trace' = [i \in 1..Len(bundles) |->
                                 BundleMessage(bundles[order[i]].key,
                                               bundles[order[i]].details)]
    /\ lastCall' = "Write"
    /\ UNCHANGED <<earlier, config, handler, mStarted, poller, packets>>

\* The callback returns: ctx and the batch go out of scope.
Return ==
    /\ lastCall = "Write"
    /\ packets' = <<>>
    /\ trace' = <<>>
    /\ lastCall' = "none"
    /\ UNCHANGED <<earlier, config, handler, mStarted, poller>>

Next ==
    \/ \E pkt \in Packets : PollerRead(pkt)
    \/ \E cfg \in Configs : OnSetup(cfg)
    \/ \E ok \in BOOLEAN : OnStart(ok)
    \/ OnStop
    \/ Write
    \/ Return

Spec == Init /\ [][Next]_vars


\* ------------------------------------------- Write, one statement at a time

\* Inside Write: in the fallback loop, or past it, in the bundle loops.
InFlight == lastCall \in {"Fallback", "Bundles"}

\* Line 156: the test of mInternLimit and mAggregationThreshold, made once.
BeginWrite ==
    /\ lastCall \notin {"Write", "Fallback", "Bundles"}
    /\ config # NoConfig
    /\ lastCall' = IF Fallback THEN "Fallback" ELSE "Bundles"
    /\ UNCHANGED <<earlier, config, handler, mStarted, poller, packets, trace>>

\* A bug: the test made again for every record.
FallbackStepRetest ==
    /\ lastCall = "Fallback"
    /\ Len(trace) < Len(packets)
    /\ IF mInternLimit = 0 /\ mAggregationThreshold = 0
       THEN /\ trace' = Append(trace, PacketMessage(packets[Len(trace) + 1]))
            /\ lastCall' = lastCall
       ELSE /\ trace' = trace
            /\ lastCall' = "Bundles"
    /\ UNCHANGED <<earlier, config, handler, mStarted, poller, packets>>

\* One turn of the fallback loop: the packet of the next record.
FallbackStep ==
    /\ lastCall = "Fallback"
    /\ Len(trace) < Len(packets)
    /\ trace' = Append(trace, PacketMessage(packets[Len(trace) + 1]))
    /\ UNCHANGED <<earlier, config, handler, mStarted, poller, packets, lastCall>>

\* The trace packets of the bundles of the batch, as inserted.
BundleMessages ==
    LET bundles == Bundles(packets, Len(packets))
    IN  [j \in 1..Len(bundles) |-> BundleMessage(bundles[j].key, bundles[j].details)]

\* One turn of the second loop: the packet of a bundle not yet visited.
BundleStep ==
    /\ lastCall = "Bundles"
    /\ \E j \in DOMAIN BundleMessages :
        /\ Cardinality({k \in DOMAIN trace : trace[k] = BundleMessages[j]})
            < Cardinality({i \in DOMAIN BundleMessages :
                              BundleMessages[i] = BundleMessages[j]})
        /\ trace' = Append(trace, BundleMessages[j])
    /\ UNCHANGED <<earlier, config, handler, mStarted, poller, packets, lastCall>>

\* The loop is through: Write returns to the callback.
EndWrite ==
    /\ InFlight
    /\ Len(trace) = IF lastCall = "Fallback" THEN Len(packets)
                    ELSE Len(BundleMessages)
    /\ lastCall' = "Write"
    /\ UNCHANGED <<earlier, config, handler, mStarted, poller, packets, trace>>

\* OnSetup while Write is between two statements.
SetupDuringWrite(cfg) ==
    /\ InFlight
    /\ config' = cfg
    /\ mPollMs' = IF cfg.poll_ms < POLL_MIN_MS THEN POLL_MIN_MS ELSE cfg.poll_ms
    /\ mInternLimit' = cfg.intern_limit
    /\ mAggregationThreshold' = cfg.aggregation_threshold
    /\ mDropLocalPort' = cfg.drop_local_port
    /\ mDropRemotePort' = cfg.drop_remote_port
    /\ mDropTcpFlags' = cfg.drop_tcp_flags
    /\ UNCHANGED <<earlier, mStarted, poller, packets, trace, lastCall>>

NextRace ==
    \/ \E pkt \in Packets : ~InFlight /\ PollerRead(pkt)
    \/ \E cfg \in Configs : ~InFlight /\ OnSetup(cfg)
    \/ BeginWrite
    \/ FallbackStep
    \/ BundleStep
    \/ EndWrite
    \/ \E cfg \in Configs : SetupDuringWrite(cfg)
    \/ Return

\* Write in steps, with OnSetup free to run between any two of them.
SpecRace == Init /\ [][NextRace]_vars

\* ------------------------------------------------- one callback after another

\* Records of two contexts, the first with two timestamps.
BatchPackets ==
    {BasePacket, [BasePacket EXCEPT !.timestampNs = 5, !.length = 456],
     [BasePacket EXCEPT !.uid = 1001]}

\* Configurations in pairs that differ in intern_limit alone, and one that
\* turns bundling off.
BatchConfigs ==
    {[poll_ms |-> 100, intern_limit |-> il, aggregation_threshold |-> at,
      drop_local_port |-> FALSE, drop_remote_port |-> FALSE,
      drop_tcp_flags |-> FALSE] :
        il \in {0, 1, 5}, at \in {0, 10}}

\* The callback returns; what it was given and what it wrote is kept for the
\* comparison with the next callback.
ReturnAfterBatch ==
    /\ lastCall = "Write"
    /\ earlier' = <<[packets |-> packets, config |-> config, trace |-> trace]>>
    /\ packets' = <<>>
    /\ trace' = <<>>
    /\ lastCall' = "none"
    /\ UNCHANGED <<config, handler, mStarted, poller>>

NextBatches ==
    \/ \E pkt \in BatchPackets : PollerRead(pkt)
    \/ \E cfg \in BatchConfigs : OnSetup(cfg)
    \/ Write
    \/ ReturnAfterBatch

\* Batches delivered one after the other to one data source.
SpecBatches == Init /\ [][NextBatches]_vars

\* --------------------------------------------- records at the width's ends

NextExtremes ==
    \/ \E pkt \in WidePackets : PollerRead(pkt)
    \/ \E cfg \in BatchConfigs : OnSetup(cfg)
    \/ Write
    \/ Return

\* Batches of records whose timestamps and lengths reach the ends of
\* uint64_t and uint32_t.
SpecExtremes == Init /\ [][NextExtremes]_vars

\* ============================================================== properties

\* The callback has written its trace packets and not yet returned; the lock
\* keeps config and the handler's fields as Write read them.
Written == lastCall = "Write"

\* What the configuration asks for.
BundlingEnabled == config.intern_limit # 0 \/ config.aggregation_threshold # 0

IsPacket(m) == DOMAIN m = {"timestamp", "network_packet"}

IsBundle(m) == DOMAIN m = {"timestamp", "network_packet_bundle"}

\* a + b in uint64_t.
PlusU64(a, b) == IF a <= UINT64_MAX - b THEN a + b ELSE a - (UINT64_MAX - b) - 1

\* The (timestamp, length) pairs a reader recovers from one trace packet.
Recovered(m) ==
    IF IsPacket(m)
    THEN << <<m.timestamp, m.network_packet.length>> >>
    ELSE [i \in DOMAIN m.network_packet_bundle.packet_timestamps |->
            <<PlusU64(m.timestamp, m.network_packet_bundle.packet_timestamps[i]),
              m.network_packet_bundle.packet_lengths[i]>>]

\* The (timestampNs, length) pairs of a sequence of records.
PairsOf(pkts) == [i \in DOMAIN pkts |-> <<pkts[i].timestampNs, pkts[i].length>>]

\* How often x occurs in the sequence s.
Count(s, x) == Cardinality({i \in DOMAIN s : s[i] = x})

\* How often the pair x is recovered from the trace.
CountRecovered(x) ==
    Cardinality(UNION {{<<k, i>> : i \in {j \in DOMAIN Recovered(trace[k]) :
                                            Recovered(trace[k])[j] = x}} :
                       k \in DOMAIN trace})

AllRecovered == UNION {{Recovered(trace[k])[i] : i \in DOMAIN Recovered(trace[k])} :
                       k \in DOMAIN trace}

\* The eight context fields, one by one.
SameEight(a, b) ==
    /\ a.ifindex = b.ifindex /\ a.uid = b.uid /\ a.tag = b.tag
    /\ a.sport = b.sport /\ a.dport = b.dport /\ a.egress = b.egress
    /\ a.ipProto = b.ipProto /\ a.tcpFlags = b.tcpFlags

\* The records of the batch with the context of record r, in arrival order.
GroupOf(r) == SelectSeq(packets, LAMBDA p : SameEight(p, packets[r]))

\* Sequences with the same elements, each as often.
SameBag(s, t) ==
    \A x \in {s[i] : i \in DOMAIN s} \cup {t[i] : i \in DOMAIN t} :
        Count(s, x) = Count(t, x)

\* C1 (lossless coverage): once Write has processed a batch, in direct and in
\* bundled mode, every (timestamp, length) pair is recovered from the emitted
\* trace packets exactly as often as it occurs among the records of the
\* batch: nothing is dropped, nothing duplicated.
C1_LosslessCoverage ==
    Written =>
        \A x \in AllRecovered \cup {PairsOf(packets)[i] : i \in DOMAIN packets} :
            CountRecovered(x) = Count(PairsOf(packets), x)

\* A bundled batch holding the same record twice.
C1_Witness ==
    /\ Written /\ BundlingEnabled
    /\ Len(packets) = 2 /\ packets[1] = packets[2]
    /\ Len(trace) = 1 /\ IsBundle(trace[1])

\* C2 (partition correctness): in bundled mode the trace packets are the
\* classes of the batch under equality of the eight context fields: every
\* packet holds the samples of the records that agree with one record on all
\* eight fields, no two packets stand for the same context, and every record
\* has its packet.  timestampNs and length play no part.
C2_PartitionCorrectness ==
    (Written /\ BundlingEnabled) =>
        \E rep \in [DOMAIN trace -> DOMAIN packets] :
            /\ \A k \in DOMAIN trace :
                /\ IsBundle(trace[k])
                /\ SameBag(Recovered(trace[k]), PairsOf(GroupOf(rep[k])))
            /\ \A k, l \in DOMAIN trace :
                k # l => ~SameEight(packets[rep[k]], packets[rep[l]])
            /\ \A i \in DOMAIN packets :
                \E k \in DOMAIN trace : SameEight(packets[i], packets[rep[k]])

\* Two records of one context with different timestamp and length share a
\* packet.
C2_Witness ==
    /\ Written /\ BundlingEnabled
    /\ Len(packets) = 2 /\ SameEight(packets[1], packets[2])
    /\ packets[1].timestampNs # packets[2].timestampNs
    /\ packets[1].length # packets[2].length
    /\ Len(trace) = 1

\* The least timestampNs of a non-empty sequence of records.
MinTimestamp(pkts) ==
    CHOOSE t \in {pkts[i].timestampNs : i \in DOMAIN pkts} :
        \A i \in DOMAIN pkts : t <= pkts[i].timestampNs

\* C3 (delta correctness): every bundle packet is stamped with the least
\* timestampNs of its group, and its i-th packet_timestamps entry added to
\* that stamp is the timestampNs of the group's i-th record.
C3_DeltaCorrectness ==
    (Written /\ BundlingEnabled) =>
        \A k \in DOMAIN trace :
            /\ IsBundle(trace[k])
            /\ \E r \in DOMAIN packets :
                LET group == GroupOf(r)
                    deltas == trace[k].network_packet_bundle.packet_timestamps
                IN  /\ Len(deltas) = Len(group)
                    /\ trace[k].timestamp = MinTimestamp(group)
                    /\ \A i \in DOMAIN deltas :
                        PlusU64(deltas[i], trace[k].timestamp) = group[i].timestampNs

\* A group whose first record is not its earliest.
C3_Witness ==
    /\ Written /\ BundlingEnabled
    /\ Len(packets) = 2 /\ SameEight(packets[1], packets[2])
    /\ packets[1].timestampNs > packets[2].timestampNs
    /\ Len(trace) = 1
    /\ trace[1].network_packet_bundle.packet_timestamps[2] = 0

\* The eight context fields of a record as one value.
EightOf(p) ==
    <<p.ifindex, p.uid, p.tag, p.sport, p.dport, p.egress, p.ipProto, p.tcpFlags>>

\* C4 (direct mode): with intern_limit and aggregation_threshold both 0,
\* Write emits one trace packet per record, in arrival order, each with that
\* record's timestampNs and length and no bundle.
C4_DirectMode ==
    (Written /\ ~BundlingEnabled) =>
        /\ Len(trace) = Len(packets)
        /\ \A i \in DOMAIN trace :
            /\ IsPacket(trace[i])
            /\ trace[i].timestamp = packets[i].timestampNs
            /\ trace[i].network_packet.length = packets[i].length

\* Two records, the later one first.
C4_Witness ==
    /\ Written /\ ~BundlingEnabled
    /\ Len(packets) = 2
    /\ packets[1].timestampNs > packets[2].timestampNs
    /\ Len(trace) = 2

\* C5 (bundled mode): with intern_limit or aggregation_threshold non-zero,
\* Write emits as many trace packets as the batch has distinct context keys
\* (none for an empty batch), and none of them is a per-record packet.
C5_BundledMode ==
    (Written /\ BundlingEnabled) =>
        /\ Len(trace) = Cardinality({EightOf(packets[i]) : i \in DOMAIN packets})
        /\ \A k \in DOMAIN trace : IsBundle(trace[k])

\* Bundling switched on by intern_limit alone; two records, two contexts.
C5_Witness ==
    /\ Written
    /\ config.intern_limit # 0 /\ config.aggregation_threshold = 0
    /\ Len(packets) = 2 /\ ~SameEight(packets[1], packets[2])
    /\ Len(trace) = 2

\* C6 (clamp law): after OnSetup the stored poll interval is the larger of
\* the configured poll_ms and 100, and an OnStart that follows calls
\* sPoller.Start with that interval, so with 100 ms at least.
C6_ClampLaw ==
    /\ config # NoConfig =>
        mPollMs = IF config.poll_ms > 100 THEN config.poll_ms ELSE 100
    /\ lastCall = "OnStart" => (pollerMs = mPollMs /\ pollerMs >= 100)

\* poll_ms unset, and the poller started.
C6_Witness ==
    /\ lastCall = "OnStart"
    /\ config # NoConfig /\ config.poll_ms = 0
    /\ pollerMs = 100 /\ mStarted

\* The context block of a trace packet.
ContextOf(m) ==
    IF IsPacket(m) THEN m.network_packet ELSE m.network_packet_bundle.ctx

\* The field is left out of the context block, or is zero.
Dropped(m, field) ==
    field \in DOMAIN ContextOf(m) => ContextOf(m)[field] = 0

\* C7 (drop flags): under a configuration with drop_local_port (or
\* drop_remote_port, drop_tcp_flags) set, no emitted trace packet carries the
\* local port (remote port, TCP flags) of its record: the field is omitted or
\* zero.
C7_DropFlags ==
    Written =>
        \A k \in DOMAIN trace :
            /\ config.drop_local_port => Dropped(trace[k], "local_port")
            /\ config.drop_remote_port => Dropped(trace[k], "remote_port")
            /\ config.drop_tcp_flags => Dropped(trace[k], "tcp_flags")

\* C8 (late callback tolerance): a batch delivered after OnStop has stopped
\* the poller, the started flag false again, is a no-op: Write emits nothing
\* for it.
C8_LateCallbackNoOp ==
    (Written /\ ~mStarted /\ pollerStops > 0) => trace = <<>>

\* C9 (stop while running): an OnStop that finds the handler started calls
\* sPoller.Stop once and leaves the handler not started.
C9_StopWhileRunning ==
    [][(lastCall' = "OnStop" /\ mStarted) =>
            (pollerStops' = pollerStops + 1 /\ ~mStarted')]_vars

\* Started, then stopped.
C9_Witness ==
    /\ lastCall = "OnStop"
    /\ pollerStarts = 1 /\ pollerStops = 1 /\ ~mStarted

\* C10 (stop while not running): an OnStop that finds the started flag false
\* calls no sPoller.Stop and changes neither the flag nor the configuration
\* fields; so sPoller.Stop is never called more often than sPoller.Start has
\* succeeded.
C10_StopWhileNotRunning ==
    /\ [][(lastCall' = "OnStop" /\ ~mStarted) =>
            (pollerStops' = pollerStops /\ mStarted' = mStarted
                /\ handler' = handler /\ config' = config)]_vars
    /\ [](pollerStops <= pollerStarts)

\* A refused start, then a stop.
C10_Witness ==
    /\ lastCall = "OnStop"
    /\ pollerMs # 0 /\ pollerStarts = 0 /\ pollerStops = 0 /\ ~mStarted


\* C11 (poller start failure is not fatal): an OnStart whose sPoller.Start
\* returns false completes with the started flag false, the OnStop that
\* follows calls no sPoller.Stop, and while no Start has succeeded Stop is
\* never called.
C11_StartFailureNotFatal ==
    /\ [][(lastCall' = "OnStart" /\ pollerStarts' = pollerStarts) => ~mStarted']_vars
    /\ [][(lastCall = "OnStart" /\ ~mStarted /\ lastCall' = "OnStop") =>
            (pollerStops' = pollerStops /\ ~mStarted')]_vars
    /\ [](pollerStarts = 0 => (~mStarted /\ pollerStops = 0))

\* A start refused at 250 ms, then a stop.
C11_Witness ==
    /\ lastCall = "OnStop"
    /\ pollerMs = 250 /\ pollerStarts = 0 /\ pollerStops = 0 /\ ~mStarted

\* ntohs, spelled out.
HostOrder(port) == (port % 256) * 256 + (port \div 256)

\* The context block the specification asks for: direction and ports by the
\* port swap law, the other fields copied, the interface name or "error".
ExpectedContext(p) ==
    [direction |-> IF p.egress THEN "DIR_EGRESS" ELSE "DIR_INGRESS",
     uid |-> p.uid,
     tag |-> p.tag,
     local_port |-> HostOrder(IF p.egress THEN p.sport ELSE p.dport),
     remote_port |-> HostOrder(IF p.egress THEN p.dport ELSE p.sport),
     ip_proto |-> p.ipProto,
     tcp_flags |-> p.tcpFlags,
     interface |-> IF p.ifindex = 1 THEN "wlan0"
                   ELSE IF p.ifindex = 2 THEN "rmnet0" ELSE "error"]

\* The trace packets that carry record i: its own packet in direct mode, the
\* bundles holding its sample in bundled mode.
Carriers(i) ==
    IF BundlingEnabled
    THEN {k \in DOMAIN trace :
            /\ IsBundle(trace[k])
            /\ \E j \in DOMAIN Recovered(trace[k]) :
                Recovered(trace[k])[j] = PairsOf(packets)[i]}
    ELSE {k \in DOMAIN trace : k = i /\ IsPacket(trace[k])}

\* The fields Fill sets, without the length of a direct packet.
FilledOf(m) ==
    [f \in DOMAIN ContextOf(m) \ {"length"} |-> ContextOf(m)[f]]

\* C12 (interface resolution failure is not fatal): every record of the
\* batch, its interface index resolvable or not, has a trace packet, direct
\* or bundled, whose context block holds the record's fields as usual and as
\* interface the resolved name, or "error" when the index has no name.
C12_InterfaceFailureNotFatal ==
    [](Written =>
        \A i \in DOMAIN packets :
            \E k \in Carriers(i) : FilledOf(trace[k]) = ExpectedContext(packets[i]))

\* A record on an unknown interface ahead of one on wlan0, in direct mode.
C12_Witness ==
    /\ Written /\ ~BundlingEnabled
    /\ Len(packets) = 2 /\ Len(trace) = 2
    /\ packets[1].ifindex = 3 /\ packets[2].ifindex = 1
    /\ trace[1].network_packet.interface = "error"
    /\ trace[2].network_packet.interface = "wlan0"

\* C13 (port swap law): the trace packet of an egress record has direction
\* DIR_EGRESS, local_port the host-order sport and remote_port the host-order
\* dport; that of an ingress record has DIR_INGRESS, local_port the
\* host-order dport and remote_port the host-order sport.
C13_PortSwapLaw ==
    [](Written =>
        /\ \A i \in DOMAIN packets :
            \E k \in Carriers(i) :
                LET c == ContextOf(trace[k])
                    p == packets[i]
                IN  IF p.egress
                    THEN /\ c.direction = "DIR_EGRESS"
                         /\ c.local_port = HostOrder(p.sport)
                         /\ c.remote_port = HostOrder(p.dport)
                    ELSE /\ c.direction = "DIR_INGRESS"
                         /\ c.local_port = HostOrder(p.dport)
                         /\ c.remote_port = HostOrder(p.sport)
        /\ \A k \in DOMAIN trace : \E i \in DOMAIN packets : k \in Carriers(i))

\* An ingress record bundled: local port 80, remote port 0x3412.
C13_Witness ==
    /\ Written /\ BundlingEnabled
    /\ Len(packets) = 1 /\ ~packets[1].egress
    /\ Len(trace) = 1
    /\ trace[1].network_packet_bundle.ctx.direction = "DIR_INGRESS"
    /\ trace[1].network_packet_bundle.ctx.local_port = 80
    /\ trace[1].network_packet_bundle.ctx.remote_port = 13330

\* C14 (arrival order within a group): every bundle lists, in
\* packet_timestamps and packet_lengths alike, one entry per record of its
\* context, in the order the records arrived in the batch, sorted or not.
C14_ArrivalOrder ==
    []((Written /\ BundlingEnabled) =>
        /\ \A k \in DOMAIN trace :
            /\ IsBundle(trace[k])
            /\ Len(trace[k].network_packet_bundle.packet_timestamps)
                = Len(trace[k].network_packet_bundle.packet_lengths)
        /\ \A r \in DOMAIN packets :
            \E k \in DOMAIN trace :
                /\ FilledOf(trace[k]) = ExpectedContext(packets[r])
                /\ Recovered(trace[k]) = PairsOf(GroupOf(r)))

\* A group that arrived latest first: offsets 4, 0 and lengths 456, 72.
C14_Witness ==
    /\ Written /\ BundlingEnabled
    /\ Len(trace) = 1
    /\ trace[1].network_packet_bundle.packet_timestamps = <<4, 0>>
    /\ trace[1].network_packet_bundle.packet_lengths = <<456, 72>>


\* Every trace packet written so far is a per-record packet.
AllPackets == \A k \in DOMAIN trace : IsPacket(trace[k])

\* Every trace packet written so far is a bundle.
AllBundles == \A k \in DOMAIN trace : IsBundle(trace[k])

\* C15 (mode selected once per batch): with OnSetup running between any two
\* statements of Write, the trace packets of a batch are all per-record
\* packets or all bundles; which, is decided by the configuration as it
\* stands when Write begins.
C15_ModeSelectedOnce ==
    /\ [][(lastCall \notin {"Fallback", "Bundles"}
            /\ lastCall' \in {"Fallback", "Bundles"}) =>
                (lastCall' = "Bundles" <=> BundlingEnabled)]_vars
    /\ [](lastCall = "Fallback" => AllPackets)
    /\ [](lastCall = "Bundles" => AllBundles)
    /\ [][(InFlight /\ lastCall' = "Write") => trace' = trace]_vars
    /\ [](Written => (AllPackets \/ AllBundles))

\* Two per-record packets written, bundling switched on meanwhile.
C15_Witness ==
    /\ Written /\ BundlingEnabled
    /\ Len(packets) = 2 /\ Len(trace) = 2
    /\ AllPackets

\* C16 (no state crosses batches): whatever the callback before was given,
\* the trace packets written for a batch are built from the records of that
\* batch alone: the recovered samples are the batch's samples, each as often,
\* and every bundle is stamped with the least timestampNs of its group within
\* the batch and holds that group's samples, also when the batch before held
\* the same context.
C16_NoCrossBatchState ==
    Written =>
        /\ \A x \in AllRecovered \cup {PairsOf(packets)[i] : i \in DOMAIN packets} :
            CountRecovered(x) = Count(PairsOf(packets), x)
        /\ BundlingEnabled =>
            \A k \in DOMAIN trace :
                \E r \in DOMAIN packets :
                    /\ trace[k].timestamp = MinTimestamp(GroupOf(r))
                    /\ Recovered(trace[k]) = PairsOf(GroupOf(r))

\* The batch before held a record of the same context, earlier than every
\* record of this batch, and was bundled too.
C16_Witness ==
    /\ Written /\ BundlingEnabled
    /\ earlier # <<>> /\ packets # <<>> /\ Len(trace) = 1
    /\ IsBundle(trace[1])
    /\ \E e \in DOMAIN earlier[1].packets :
        /\ SameEight(earlier[1].packets[e], packets[1])
        /\ earlier[1].packets[e].timestampNs < trace[1].timestamp
    /\ \A k \in DOMAIN earlier[1].trace : IsBundle(earlier[1].trace[k])
    /\ earlier[1].trace # <<>>

\* Two configurations that differ in intern_limit at most.
SameButInternLimit(c, d) ==
    /\ c.poll_ms = d.poll_ms
    /\ c.aggregation_threshold = d.aggregation_threshold
    /\ c.drop_local_port = d.drop_local_port
    /\ c.drop_remote_port = d.drop_remote_port
    /\ c.drop_tcp_flags = d.drop_tcp_flags

\* C17 (internLimit is inert beyond gating): when two callbacks are given the
\* same batch under configurations that differ in intern_limit only and both
\* ask for bundling, they write the same trace packets (the order of bundles
\* aside, which the map decides).
C17_InternLimitInert ==
    (/\ Written /\ earlier # <<>>
     /\ earlier[1].packets = packets
     /\ SameButInternLimit(earlier[1].config, config)
     /\ BundlingEnabled
     /\ (earlier[1].config.intern_limit # 0
            \/ earlier[1].config.aggregation_threshold # 0))
        => SameBag(earlier[1].trace, trace)

\* A batch of two contexts written under intern_limit 5 and then under
\* intern_limit 1, two bundles each time.
C17_Witness ==
    /\ Written /\ earlier # <<>>
    /\ earlier[1].packets = packets
    /\ SameButInternLimit(earlier[1].config, config)
    /\ earlier[1].config.intern_limit = 5 /\ config.intern_limit = 1
    /\ config.aggregation_threshold = 0
    /\ Len(packets) = 2 /\ ~SameEight(packets[1], packets[2])
    /\ Len(trace) = 2 /\ Len(earlier[1].trace) = 2

\* The greatest timestampNs of a non-empty sequence of records.
MaxTimestamp(pkts) ==
    CHOOSE t \in {pkts[i].timestampNs : i \in DOMAIN pkts} :
        \A i \in DOMAIN pkts : t >= pkts[i].timestampNs

\* The lengths of a sequence of records.
LengthsOf(pkts) == [i \in DOMAIN pkts |-> pkts[i].length]

\* f[1] + ... + f[n].
RECURSIVE SumOf(_, _)
SumOf(f, n) == IF n = 0 THEN 0 ELSE SumOf(f, n - 1) + f[n]

\* The sum of the lengths modulo UINT32_MAX + 1, added up in 16-bit halves so
\* that no intermediate sum leaves the integers.
WrappedTotal(pkts) ==
    LET lo == SumOf([i \in DOMAIN pkts |-> pkts[i].length % Limb], Len(pkts))
        hi == SumOf([i \in DOMAIN pkts |-> pkts[i].length \div Limb], Len(pkts))
    IN  ((hi + lo \div Limb) % (UINT32_MAX \div Limb + 1)) * Limb + (lo % Limb)

\* The records of the batch with the context of key, in arrival order.
GroupOfKey(key) == SelectSeq(packets, LAMBDA p : SameEight(p, key))

\* C18 (wraparound byte total): after Write's first loop every record has its
\* bundle, and every bundle's bytes is the sum of its group's lengths modulo
\* the width of uint32_t; wrapped or not, time_and_len holds the group's
\* samples in arrival order, minTs and maxTs are the group's least and
\* greatest timestampNs, and the group's lengths are emitted as they came.
C18_WraparoundByteTotal ==
    (Written /\ BundlingEnabled) =>
        LET bundles == Bundles(packets, Len(packets))
        IN  /\ \A r \in DOMAIN packets :
                \E j \in DOMAIN bundles : SameEight(bundles[j].key, packets[r])
            /\ \A j \in DOMAIN bundles :
                LET group == GroupOfKey(bundles[j].key)
                    d == bundles[j].details
                IN  /\ d.bytes = WrappedTotal(group)
                    /\ d.time_and_len = PairsOf(group)
                    /\ d.minTs = MinTimestamp(group)
                    /\ d.maxTs = MaxTimestamp(group)
                    /\ \E k \in DOMAIN trace :
                        /\ IsBundle(trace[k])
                        /\ trace[k].network_packet_bundle.ctx
                            = ExpectedContext(bundles[j].key)
                        /\ trace[k].network_packet_bundle.packet_lengths
                            = LengthsOf(group)

\* Two records of one context whose lengths add up beyond UINT32_MAX: the
\* total has wrapped below either length.
C18_Witness ==
    /\ Written /\ BundlingEnabled
    /\ Len(packets) = 2 /\ SameEight(packets[1], packets[2])
    /\ packets[1].length > UINT32_MAX - packets[2].length
    /\ Bundles(packets, 2)[1].details.bytes < packets[1].length
    /\ Len(trace) = 1
    /\ trace[1].network_packet_bundle.packet_lengths
        = <<packets[1].length, packets[2].length>>

\* C19 (implicit: timestamps within minTs..maxTs): once the first loop is
\* through, every sample of a bundle lies between the bundle's minTs and
\* maxTs; so every emitted packet_timestamps entry is the plain difference
\* ts - minTs, with no wrap below zero, lies in 0 .. maxTs - minTs, and at
\* least one entry of every bundle is 0.
C19_TimestampBounds ==
    (Written /\ BundlingEnabled) =>
        LET bundles == Bundles(packets, Len(packets))
        IN  /\ \A j \in DOMAIN bundles :
                \A i \in DOMAIN bundles[j].details.time_and_len :
                    /\ bundles[j].details.minTs <= bundles[j].details.time_and_len[i][1]
                    /\ bundles[j].details.time_and_len[i][1] <= bundles[j].details.maxTs
            /\ \A k \in DOMAIN trace :
                \E j \in DOMAIN bundles :
                    LET d == bundles[j].details
                        deltas == trace[k].network_packet_bundle.packet_timestamps
                    IN  /\ trace[k].network_packet_bundle.ctx
                            = ExpectedContext(bundles[j].key)
                        /\ trace[k].timestamp = d.minTs
                        /\ deltas = [i \in DOMAIN d.time_and_len |->
                                        d.time_and_len[i][1] - d.minTs]
                        /\ \A i \in DOMAIN deltas :
                            0 <= deltas[i] /\ deltas[i] <= d.maxTs - d.minTs
                        /\ \E i \in DOMAIN deltas : deltas[i] = 0

\* A bundle spanning the whole of uint64_t, its latest record first: the
\* entries are UINT64_MAX and 0.
C19_Witness ==
    /\ Written /\ BundlingEnabled
    /\ Len(packets) = 2 /\ SameEight(packets[1], packets[2])
    /\ packets[1].timestampNs = UINT64_MAX /\ packets[2].timestampNs = 0
    /\ Len(trace) = 1
    /\ trace[1].network_packet_bundle.packet_timestamps = <<UINT64_MAX, 0>>

=============================================================================
